---------------------------- MODULE Spec2Model ----------------------------
(***************************************************************************)
(* A model of the BBO .lin parser of bridgescape (src/linparse.py).        *)
(*                                                                         *)
(* Text is modelled as sequences of one-character strings, a .lin record   *)
(* as the tagged fields the parser's regular expressions look for, and a   *)
(* Python call as the value it returns or the exception it raises.         *)
(***************************************************************************)
EXTENDS Integers, Sequences, FiniteSets, TLC

VARIABLES
    lin,        \* the raw record being parsed (its tagged fields)
    pc,         \* where parse_linfile stands
    run,        \* 1 for the first parse of the record, 2 for the second
    players,    \* parse_linfile's local: the value get_players returned
    dealer,     \* parse_linfile's local: the value get_dealer returned
    hands,      \* parse_linfile's local: the value get_initial_hands returned
    bids_triple,\* parse_linfile's local: the value get_bids returned
    bids,       \* unpacked from bids_triple
    declarer,   \* unpacked from bids_triple
    contract,   \* unpacked from bids_triple
    doubled,    \* unpacked from bids_triple
    vuln,       \* parse_linfile's local: the value get_vulnerability returned
    play_str,   \* get_play's local: the tricks not yet replayed
    order,      \* get_play's local: the rotation of the current trick
    dummy,      \* get_play's local: the declarer's partner
    play,       \* get_play's local: the trick records
    made,       \* get_play's local (an int), then parse_linfile's local
                \* (an int, or the str of the claim marker)
    result,     \* what parse_linfile returned or raised
    first,      \* what the first parse of the record returned or raised, as
                \* it was when it returned (its hands card by card)
    heap,       \* the list objects made so far, a Hand holding the index of
                \* its list cards; they outlive the call that made them
    fin,        \* the input of the pure function under check, or the Hand
                \* operated on
    fout        \* the value the function or the method returned or raised

vars == <<lin, pc, run, players, dealer, hands, bids_triple, bids, declarer,
          contract, doubled, vuln, play_str, order, dummy, play, made,
          result, first, heap, fin, fout>>

parse_vars == <<lin, pc, run, players, dealer, hands, bids_triple, bids,
                declarer, contract, doubled, vuln, play_str, order, dummy,
                play, made, result, first, heap>>

-----------------------------------------------------------------------------
(* Python values *)

\* Python's None, wherever a value may be None
None == [tag |-> "None"]
\* a value v returned
Ok(v) == [tag |-> "ok", val |-> v]
\* an exception raised
Raise(e) == [tag |-> "raise", exc |-> e]
\* a local not yet assigned
Unset == [tag |-> "unset"]

\* a Python str (a sequence of characters) and a Python tuple, where a value
\* may be either
PyStr(s) == [tag |-> "str", val |-> s]
PyTuple(t) == [tag |-> "tuple", val |-> t]
\* a Python int, where a value may be an int or a str
PyInt(n) == [tag |-> "int", val |-> n]

IsOk(r) == r.tag = "ok"
IsRaise(r) == r.tag = "raise"
IsNone(r) == r.tag = "None"

\* s[i:] of a Python sequence (i a 0-based index, 0 <= i)
SliceFrom(s, i) == IF i >= Len(s) THEN <<>> ELSE SubSeq(s, i + 1, Len(s))
\* s[:i] of a Python sequence (0 <= i)
SliceTo(s, i) == IF i >= Len(s) THEN s ELSE SubSeq(s, 1, i)
\* elt in list
Contains(s, elt) == \E i \in 1..Len(s) : s[i] = elt
\* list.index(elt), 0-based; defined when elt is in list
IndexOf(s, elt) == (CHOOSE i \in 1..Len(s) :
                       s[i] = elt /\ \A j \in 1..(i - 1) : s[j] # elt) - 1
\* list.remove(elt): the list without the first element equal to elt
Remove(s, elt) ==
    LET i == IndexOf(s, elt) + 1
    IN  SubSeq(s, 1, i - 1) \o SubSeq(s, i + 1, Len(s))
\* the substring test  a in b  of two Python strings
IsSubstr(a, b) == \E i \in 0..(Len(b) - Len(a)) : SubSeq(b, i + 1, i + Len(a)) = a

-----------------------------------------------------------------------------
(* Module constants *)

PLAYERS == (0 :> "E") @@ (1 :> "S") @@ (2 :> "W") @@ (3 :> "N")
SUITMAP == ("C" :> 0) @@ ("D" :> 1) @@ ("H" :> 2) @@ ("S" :> 3)
CARDMAP == ("2" :> 2) @@ ("3" :> 3) @@ ("4" :> 4) @@ ("5" :> 5) @@ ("6" :> 6)
           @@ ("7" :> 7) @@ ("8" :> 8) @@ ("9" :> 9) @@ ("T" :> 10)
           @@ ("J" :> 11) @@ ("Q" :> 12) @@ ("K" :> 13) @@ ("A" :> 14)

\* Card(suit, rank): equality of the records is Card.__eq__
Card(suit, rank) == [suit |-> suit, rank |-> rank]

\* rindex(list, elt): the index of the last position matching elt
rindex(list, elt) ==
    LET rev == [i \in 1..Len(list) |-> list[Len(list) + 1 - i]]
    IN  Len(list) - IndexOf(rev, elt) - 1

\* full_hand(): the 52 cards, suit by suit, ranks 2..14
full_hand == [i \in 1..52 |-> Card((i - 1) \div 13, 2 + ((i - 1) % 13))]

\* convert_card(lincard): lin-style 2-char notation to Card
convert_card(lincard) ==
    IF Len(lincard) < 2 THEN Raise("IndexError")
    ELSE IF lincard[1] \notin DOMAIN SUITMAP THEN Raise("KeyError")
    ELSE IF lincard[2] \notin DOMAIN CARDMAP THEN Raise("KeyError")
    ELSE Ok(Card(SUITMAP[lincard[1]], CARDMAP[lincard[2]]))

\* the list suits of rotate_to
suits == <<"E", "S", "W", "N">>

\* rotate_to with the offset dropped: 'ESWN' rotated to start at dir
rotate_to_dir(dir, offset) ==
    LET rotation == IndexOf(suits, dir)
    IN  SliceFrom(suits, rotation) \o SliceTo(suits, rotation)

\* rotate_to(dir, offset): 'ESWN' rotated to start offset places after dir
rotate_to(dir, offset) ==
    LET rotation == IndexOf(suits, dir) + offset
    IN  SliceFrom(suits, rotation) \o SliceTo(suits, rotation)

-----------------------------------------------------------------------------
(* get_trick_winner *)

\* trumpsuit of get_trick_winner: no suit at all for trump 'N'
trumpsuit_of(trump) == IF trump = "N" THEN {} ELSE {SUITMAP[trump]}

\* trick_step with the second test cut to "the card is a trump": a trump
\* then beats a higher trump played before it
trick_step_any_trump(cards, trumpsuit, st, dir) ==
    IF cards[dir].suit = st.top.suit /\ cards[dir].rank > st.top.rank
    THEN [winner |-> dir, top |-> cards[dir]]
    ELSE IF cards[dir].suit \in trumpsuit
    THEN [winner |-> dir, top |-> cards[dir]]
    ELSE st

\* one pass of the loop body of get_trick_winner
trick_step(cards, trumpsuit, st, dir) ==
    IF cards[dir].suit = st.top.suit /\ cards[dir].rank > st.top.rank
    THEN [winner |-> dir, top |-> cards[dir]]
    ELSE IF cards[dir].suit \in trumpsuit /\ st.top.suit \notin trumpsuit
    THEN [winner |-> dir, top |-> cards[dir]]
    ELSE st

\* get_trick_winner(cards, leader, trump): the winner and the winning card
get_trick_winner(cards, leader, trump) ==
    LET trumpsuit == trumpsuit_of(trump)
        suitlist == Remove(suits, leader)
        st0 == [winner |-> leader, top |-> cards[leader]]
        st1 == trick_step(cards, trumpsuit, st0, suitlist[1])
        st2 == trick_step(cards, trumpsuit, st1, suitlist[2])
        st3 == trick_step(cards, trumpsuit, st2, suitlist[3])
    IN  st3

-----------------------------------------------------------------------------
(* get_players, get_dealer *)

\* get_players(lin): the names of the pn field, keyed by direction
get_players(l) ==
    IF IsNone(l.pn) THEN None
    ELSE LET p_str == l.pn.val
         IN  IF Len(p_str) < 4 THEN Raise("IndexError")
             ELSE Ok([S |-> p_str[1], W |-> p_str[2],
                      N |-> p_str[3], E |-> p_str[4]])

\* int() of one decimal digit
digit_value == ("0" :> 0) @@ ("1" :> 1) @@ ("2" :> 2) @@ ("3" :> 3) @@ ("4" :> 4)
               @@ ("5" :> 5) @@ ("6" :> 6) @@ ("7" :> 7) @@ ("8" :> 8)
               @@ ("9" :> 9)

\* whether md\|([1-4]) matches: the md field starts with a digit 1..4
dealer_matches(l) ==
    /\ IsOk(l.md)
    /\ Len(l.md.val[1]) >= 1
    /\ l.md.val[1][1] \in {"1", "2", "3", "4"}

\* get_dealer(lin): the position of the dealer
get_dealer(l) ==
    IF ~dealer_matches(l) THEN Raise("AttributeError")
    ELSE LET dealer_no == digit_value[l.md.val[1][1]]
         IN  Ok(PLAYERS[dealer_no % 4])

-----------------------------------------------------------------------------
(* get_initial_hands *)

\* the first index above from whose character is in set, 0 when there is none
first_in(s, from, set) ==
    IF \E i \in (from + 1)..Len(s) : s[i] \in set
    THEN CHOOSE i \in (from + 1)..Len(s) :
            s[i] \in set /\ \A j \in (from + 1)..(i - 1) : s[j] \notin set
    ELSE 0

\* the match of S([^HDC]*)?H([^DC]*)?D([^C]*)?C(.*)? starting at index p:
\* each greedy group runs to the first sentinel that ends it, which must be
\* the sentinel the pattern asks for
card_match_at(s, p) ==
    LET q == first_in(s, p, {"H", "D", "C"})
        r == first_in(s, q, {"D", "C"})
        t == first_in(s, r, {"C"})
    IN  IF s[p] = "S" /\ q # 0 /\ s[q] = "H" /\ r # 0 /\ s[r] = "D" /\ t # 0
        THEN Ok(<<SubSeq(s, p + 1, q - 1), SubSeq(s, q + 1, r - 1),
                  SubSeq(s, r + 1, t - 1), SubSeq(s, t + 1, Len(s))>>)
        ELSE None

\* re.search of that pattern: the match at the leftmost index that has one
card_search(s) ==
    IF \E p \in 1..Len(s) : IsOk(card_match_at(s, p))
    THEN card_match_at(s, CHOOSE p \in 1..Len(s) :
            /\ IsOk(card_match_at(s, p))
            /\ \A j \in 1..(p - 1) : ~IsOk(card_match_at(s, j)))
    ELSE None

\* Hand.__init__ with the default initial=[] in the place of the None test:
\* every Hand() is given the one list made when the def ran
Hand_init_shared(hp) ==
    [heap |-> IF hp = <<>> THEN << <<>> >> ELSE hp, ref |-> 1]

\* Hand(): self.cards = [], a new empty list
Hand_init(hp) == [heap |-> Append(hp, <<>>), ref |-> Len(hp) + 1]

\* the symbols of one suit group, each with the suit of the group
group_syms(suit, group) == [i \in 1..Len(group) |-> <<suit, group[i]>>]

\* the loop of convert_cards over the symbols of the blob, each with its
\* suit: hand.add_card(Card(suit, CARDMAP[v])) symbol by symbol, up to the
\* first symbol that CARDMAP does not know
add_cards(hp, ref, syms) ==
    LET bad(i) == syms[i][2] \notin DOMAIN CARDMAP
        n == IF \E i \in 1..Len(syms) : bad(i)
             THEN (CHOOSE i \in 1..Len(syms) :
                      bad(i) /\ \A k \in 1..(i - 1) : ~bad(k)) - 1
             ELSE Len(syms)
        added == [i \in 1..n |-> Card(syms[i][1], CARDMAP[syms[i][2]])]
    IN  [heap |-> [hp EXCEPT ![ref] = @ \o added],
         out |-> IF n < Len(syms) THEN Raise("KeyError") ELSE Ok(ref)]

\* convert_cards(cstring): the Hand of a .lin card blob, made before the blob
\* is searched
convert_cards(hp, cstring) ==
    LET hand == Hand_init(hp)
        card_match == card_search(cstring)
    IN  IF IsNone(card_match)
        THEN [heap |-> hand.heap, out |-> Raise("AttributeError")]
        ELSE add_cards(hand.heap, hand.ref,
                       group_syms(3, card_match.val[1])
                       \o group_syms(2, card_match.val[2])
                       \o group_syms(1, card_match.val[3])
                       \o group_syms(0, card_match.val[4]))

\* recover_east without the assert, a card not in the deck being skipped
RECURSIVE recover_east_unchecked(_, _, _, _, _)
recover_east_unchecked(hp, e, known, d, i) ==
    IF d > Len(known) THEN [heap |-> hp, out |-> Ok(e)]
    ELSE IF i >= Len(hp[known[d]])
    THEN recover_east_unchecked(hp, e, known, d + 1, 0)
    ELSE IF ~Contains(hp[e], hp[known[d]][i + 1])
    THEN recover_east_unchecked(hp, e, known, d, i + 1)
    ELSE recover_east_unchecked(
             [hp EXCEPT ![e] = Remove(@, hp[known[d]][i + 1])],
             e, known, d, i + 1)

\* the loop that recovers the hand of E, standing at the card of index i of
\* the d-th of the known hands: each card of the known hands must be in what
\* is left of the deck (the assert), and is removed from it
RECURSIVE recover_east(_, _, _, _, _)
recover_east(hp, e, known, d, i) ==
    IF d > Len(known) THEN [heap |-> hp, out |-> Ok(e)]
    ELSE IF i >= Len(hp[known[d]]) THEN recover_east(hp, e, known, d + 1, 0)
    ELSE IF ~Contains(hp[e], hp[known[d]][i + 1])
    THEN [heap |-> hp, out |-> Raise("AssertionError")]
    ELSE recover_east([hp EXCEPT ![e] = Remove(@, hp[known[d]][i + 1])],
                      e, known, d, i + 1)

\* hands['E'] = full_hand(), less the cards of the Hands s, w and hN.out.val
hands_E(s, w, hN) ==
    IF IsRaise(hN.out) THEN hN
    ELSE LET east == Hand_init(hN.heap)
             hE == recover_east([east.heap EXCEPT ![east.ref] = @ \o full_hand],
                                east.ref, <<s, w, hN.out.val>>, 1, 0)
         IN  IF IsRaise(hE.out) THEN hE
             ELSE [heap |-> hE.heap,
                   out |-> Ok([S |-> s, W |-> w, N |-> hN.out.val, E |-> east.ref])]

\* hands['N'] = convert_cards(h_str[2]), and what follows it
hands_N(s, hW, h_str) ==
    IF IsRaise(hW.out) THEN hW
    ELSE IF Len(h_str) < 3 THEN [heap |-> hW.heap, out |-> Raise("IndexError")]
    ELSE hands_E(s, hW.out.val, convert_cards(hW.heap, h_str[3]))

\* hands['W'] = convert_cards(h_str[1]), and what follows it
hands_W(hS, h_str) ==
    IF IsRaise(hS.out) THEN hS
    ELSE IF Len(h_str) < 2 THEN [heap |-> hS.heap, out |-> Raise("IndexError")]
    ELSE hands_N(hS.out.val, convert_cards(hS.heap, h_str[2]), h_str)

\* get_initial_hands(lin): the four Hands, keyed by direction, and the lists
\* it leaves. hands['S'] is made of h_str[0] without the dealer digit
get_initial_hands(hp, l) ==
    IF IsNone(l.md) THEN [heap |-> hp, out |-> None]
    ELSE hands_W(convert_cards(hp, SliceFrom(l.md.val[1], 1)), l.md.val)

\* the cards of the four Hands, hand by hand
cards_of(hp, hs) ==
    [S |-> hp[hs.S], W |-> hp[hs.W], N |-> hp[hs.N], E |-> hp[hs.E]]

-----------------------------------------------------------------------------
(* get_vulnerability *)

\* get_vulnerability(lin): 'NS', 'WE', 'none', 'both', or None
get_vulnerability(l) ==
    IF IsNone(l.sv) THEN Raise("AttributeError")
    ELSE LET vuln_str == l.sv.val
         IN  IF vuln_str \in {"N", "n", "S", "s"} THEN Ok("NS")
             ELSE IF vuln_str \in {"E", "e", "W", "w"} THEN Ok("WE")
             ELSE IF vuln_str \in {"o", "O", "0"} THEN Ok("none")
             ELSE IF vuln_str \in {"B", "b"} THEN Ok("both")
             ELSE None

-----------------------------------------------------------------------------
(* get_bids *)

\* re.sub(r'(\|?an\|(.*)?$)|\!', '', x): the bid token without its alert
\* marks '!' and without its annotation cell (from 'an|', with the '|' before
\* it when there is one, to the end)
strip_annotation(x) ==
    LET is_an(i) == i + 2 <= Len(x) /\ SubSeq(x, i, i + 2) = <<"a", "n", "|">>
        k == IF \E i \in 1..Len(x) : is_an(i)
             THEN CHOOSE i \in 1..Len(x) :
                     is_an(i) /\ \A j \in 1..(i - 1) : ~is_an(j)
             ELSE Len(x) + 1
        cut == IF k > 1 /\ k <= Len(x) /\ x[k - 1] = "|" THEN k - 1 ELSE k
    IN  SelectSeq(SubSeq(x, 1, cut - 1), LAMBDA c : c # "!")

\* get_snd(str): the suit of a bid, None for a one-character token
get_snd(str) == IF Len(str) = 1 THEN "None" ELSE str[2]

\* peel with only 'd' appended to doubles, a redouble being passed over
RECURSIVE peel_doubles_only(_, _, _)
peel_doubles_only(b, i, doubles) ==
    IF i > Len(b) THEN Raise("IndexError")
    ELSE LET tok == b[Len(b) + 1 - i]
         IN  IF IsSubstr(tok, <<"d", "r", "p">>) \/ tok = <<"p", "!">>
             THEN peel_doubles_only(b, i + 1,
                       IF tok = <<"d">> THEN Append(doubles, tok)
                       ELSE doubles)
             ELSE Ok([i |-> i, doubles |-> doubles])

\* the loop that peels 'd', 'r', 'p' off the end of the bid sequence: the
\* final i and the list doubles, or the IndexError of bids[-i]
RECURSIVE peel(_, _, _)
peel(b, i, doubles) ==
    IF i > Len(b) THEN Raise("IndexError")
    ELSE LET tok == b[Len(b) + 1 - i]
         IN  IF IsSubstr(tok, <<"d", "r", "p">>) \/ tok = <<"p", "!">>
             THEN peel(b, i + 1,
                       IF IsSubstr(tok, <<"d", "r">>) THEN Append(doubles, tok)
                       ELSE doubles)
             ELSE Ok([i |-> i, doubles |-> doubles])

\* bidsuits[cindex::-2]: the suits at cindex, cindex-2, ... (0-based)
back_by_two(bidsuits, cindex) ==
    [k \in 1..((cindex \div 2) + 1) |-> bidsuits[cindex - 2 * (k - 1) + 1]]

\* declarer_of without the parity test: always the bidder of the contract
declarer_of_bidder(BID_PLAYERS, cindex, firstmatch) ==
    BID_PLAYERS[(cindex % 4) + 1]

\* the declarer: the bidder of the contract when the first bid of its suit
\* on the winning team is an even number of that team's turns before it,
\* the bidder's partner otherwise
declarer_of(BID_PLAYERS, cindex, firstmatch) ==
    IF firstmatch % 2 = 0
    THEN BID_PLAYERS[(cindex % 4) + 1]
    ELSE BID_PLAYERS[((cindex - 2) % 4) + 1]

\* get_bids(lin, dealer): (bids, declarer, (contract, doubled)), or
\* (bids, None, 'PO') for a pass-out, or None without an auction
get_bids(l, dlr) ==
    LET BID_PLAYERS == rotate_to(dlr, 0)
    IN  IF IsNone(l.mb) THEN None
        ELSE
        LET b == [i \in 1..Len(l.mb.val) |-> strip_annotation(l.mb.val[i])]
        IN  IF Len(b) = 4 /\ b[1] = <<"p">>
            THEN Ok(<<b, "None", PyStr(<<"P", "O">>)>>)
            ELSE
            LET peeled == peel(b, 1, <<>>)
            IN  IF IsRaise(peeled) THEN peeled
                ELSE
                LET ctr == b[Len(b) + 1 - peeled.val.i]
                    cindex == IndexOf(b, ctr)
                    bidsuits == [i \in 1..Len(b) |-> get_snd(b[i])]
                    firstmatch == rindex(back_by_two(bidsuits, cindex), ctr[2])
                IN  IF Len(ctr) < 2 THEN Raise("IndexError")
                    ELSE IF \E i \in 1..Len(b) : Len(b[i]) = 0
                    THEN Raise("IndexError")
                    ELSE Ok(<<b, declarer_of(BID_PLAYERS, cindex, firstmatch),
                              PyTuple(<<ctr, Len(peeled.val.doubles)>>)>>)

-----------------------------------------------------------------------------
(* get_play *)

\* group(1) of \|pc\|(.+)(\|pg\|\|)|(\|mc\|) split at '|pg|': the tricks
\* from the first card played to the last end-of-trick marker. Cards played
\* after the last marker are outside the group. Without a marker after a
\* card the first alternative does not match, and group(1) is None whether
\* the '|mc|' alternative matches or nothing does.
play_split(l) ==
    IF IsOk(l.pc) /\ Len(l.pc.val.segs) >= 1
    THEN Ok(l.pc.val.segs)
    ELSE Raise("AttributeError")

\* play = [] at the start of get_play
new_play == <<>>

\* the first exception that converting cards[0], cards[1], ... raises
first_raise(cards) ==
    LET bad(i) == IsRaise(convert_card(cards[i]))
    IN  convert_card(cards[CHOOSE i \in 1..Len(cards) :
                              bad(i) /\ \A j \in 1..(i - 1) : ~bad(j)])

\* the trick record: the lead, and ord[i] playing the i-th of cards for the
\* first n of them
trick_record(ord, cards, n) ==
    [lead |-> ord[1],
     cards |-> [d \in {ord[i] : i \in 1..n} |->
                   convert_card(cards[IndexOf(ord, d) + 1]).val]]

\* tally with the test cut to the declarer: a trick the dummy wins is not
\* counted
tally_declarer_only(m, winner, decl, dum) == IF winner = decl THEN m + 1 ELSE m

\* made += 1 when the declaring team won the trick
tally(m, winner, decl, dum) == IF winner = decl \/ winner = dum THEN m + 1 ELSE m

-----------------------------------------------------------------------------
(* parse_linfile, step by step *)

\* the digits of \|mc\|([0-9]+)\|, or None when the pattern has no match
claim_search(l) ==
    IF /\ IsOk(l.mc)
       /\ Len(l.mc.val) >= 1
       /\ \A i \in 1..Len(l.mc.val) : l.mc.val[i] \in DOMAIN digit_value
    THEN Ok(l.mc.val)
    ELSE None

\* BridgeHand(...)
BridgeHand(pl, dl, hs, bs, py, ct, dc, db, vl, md, cl) ==
    [players |-> pl, dealer |-> dl, hands |-> hs, bids |-> bs, play |-> py,
     contract |-> ct, declarer |-> dc, doubled |-> db, vuln |-> vl,
     made |-> md, claimed |-> cl]

\* bids, declarer, (contract, doubled) = bids_triple
unpack(triple) ==
    [bids |-> triple[1], declarer |-> triple[2],
     contract |-> IF triple[3].tag = "str" THEN <<triple[3].val[1]>>
                  ELSE triple[3].val[1],
     doubled |-> IF triple[3].tag = "str" THEN <<triple[3].val[2]>>
                 ELSE triple[3].val[2]]

\* a Deal with its hands card by card, as a comparison field by field sees it
structure(hp, outcome) ==
    IF IsOk(outcome)
    THEN Ok([outcome.val EXCEPT !.hands = cards_of(hp, outcome.val.hands)])
    ELSE outcome

\* parse_linfile returns or raises
Finish(outcome) ==
    /\ result' = outcome
    /\ first' = IF run = 1 THEN structure(heap, outcome) ELSE first
    /\ pc' = "done"

get_play_locals == <<play_str, order, dummy, play, made>>
bid_locals == <<bids, declarer, contract, doubled>>

GetPlayers ==
    /\ pc = "get_players"
    /\ LET r == get_players(lin)
       IN  IF IsRaise(r)
           THEN Finish(r) /\ UNCHANGED players
           ELSE players' = r /\ pc' = "get_dealer" /\ UNCHANGED <<result, first>>
    /\ UNCHANGED <<lin, run, dealer, hands, bids_triple, bid_locals, vuln,
                   get_play_locals, heap, fin, fout>>

GetDealer ==
    /\ pc = "get_dealer"
    /\ LET r == get_dealer(lin)
       IN  IF IsRaise(r)
           THEN Finish(r) /\ UNCHANGED dealer
           ELSE dealer' = r.val /\ pc' = "get_initial_hands"
                /\ UNCHANGED <<result, first>>
    /\ UNCHANGED <<lin, run, players, hands, bids_triple, bid_locals, vuln,
                   get_play_locals, heap, fin, fout>>

GetInitialHands ==
    /\ pc = "get_initial_hands"
    /\ LET r == get_initial_hands(heap, lin)
       IN  /\ heap' = r.heap
           /\ IF IsRaise(r.out)
              THEN Finish(r.out) /\ UNCHANGED hands
              ELSE hands' = r.out /\ pc' = "get_bids" /\ UNCHANGED <<result, first>>
    /\ UNCHANGED <<lin, run, players, dealer, bids_triple, bid_locals, vuln,
                   get_play_locals, fin, fout>>

GetBids ==
    /\ pc = "get_bids"
    /\ LET r == get_bids(lin, dealer)
       IN  IF IsRaise(r)
           THEN Finish(r) /\ UNCHANGED bids_triple
           ELSE bids_triple' = r /\ pc' = "check" /\ UNCHANGED <<result, first>>
    /\ UNCHANGED <<lin, run, players, dealer, hands, bid_locals, vuln,
                   get_play_locals, heap, fin, fout>>

\* if not(players and hands and bids_triple): return None; else unpack
CheckFields ==
    /\ pc = "check"
    /\ IF IsNone(players) \/ IsNone(hands) \/ IsNone(bids_triple)
       THEN Finish(None) /\ UNCHANGED bid_locals
       ELSE LET u == unpack(bids_triple.val)
            IN  /\ bids' = u.bids
                /\ declarer' = u.declarer
                /\ contract' = u.contract
                /\ doubled' = u.doubled
                /\ pc' = "get_vulnerability"
                /\ UNCHANGED <<result, first>>
    /\ UNCHANGED <<lin, run, players, dealer, hands, bids_triple, vuln,
                   get_play_locals, heap, fin, fout>>

GetVulnerability ==
    /\ pc = "get_vulnerability"
    /\ LET r == get_vulnerability(lin)
       IN  IF IsRaise(r)
           THEN Finish(r) /\ UNCHANGED vuln
           ELSE vuln' = r /\ pc' = "get_play" /\ UNCHANGED <<result, first>>
    /\ UNCHANGED <<lin, run, players, dealer, hands, bids_triple, bid_locals,
                   get_play_locals, heap, fin, fout>>

\* get_play up to its loop: the play blob, the first rotation, play and made
GetPlayEnter ==
    /\ pc = "get_play"
    /\ LET r == play_split(lin)
       IN  IF IsRaise(r)
           THEN Finish(r) /\ UNCHANGED get_play_locals
           ELSE IF ~Contains(suits, declarer)
           THEN Finish(Raise("ValueError")) /\ UNCHANGED get_play_locals
           ELSE /\ play_str' = r.val
                /\ order' = rotate_to(declarer, 1)
                /\ dummy' = rotate_to(declarer, 1)[2]
                /\ play' = new_play
                /\ made' = 0
                /\ pc' = "replay"
                /\ UNCHANGED <<result, first>>
    /\ UNCHANGED <<lin, run, players, dealer, hands, bids_triple, bid_locals,
                   vuln, heap, fin, fout>>

\* one pass of the loop of get_play over a trick of four cards (or more, of
\* which the first four are played)
ReplayTrick ==
    /\ pc = "replay"
    /\ play_str # <<>>
    /\ Len(Head(play_str)) >= 4
    /\ LET cards == SubSeq(Head(play_str), 1, 4)
           trump == contract[2]
       IN  IF \E i \in 1..4 : IsRaise(convert_card(cards[i]))
           THEN Finish(first_raise(cards)) /\ UNCHANGED get_play_locals
           ELSE IF trump # "N" /\ trump \notin DOMAIN SUITMAP
           THEN Finish(Raise("KeyError")) /\ UNCHANGED get_play_locals
           ELSE LET rec == trick_record(order, cards, 4)
                    won == get_trick_winner(rec.cards, order[1], trump)
                IN  /\ play' = Append(play, rec)
                    /\ order' = rotate_to(won.winner, 0)
                    /\ made' = tally(made, won.winner, declarer, dummy)
                    /\ play_str' = Tail(play_str)
                    /\ UNCHANGED <<pc, dummy, result, first>>
    /\ UNCHANGED <<lin, run, players, dealer, hands, bids_triple, bid_locals,
                   vuln, heap, fin, fout>>

\* the pass of the loop over a trick of fewer than four cards, which ends it
ReplayPartial ==
    /\ pc = "replay"
    /\ play_str # <<>>
    /\ Len(Head(play_str)) < 4
    /\ LET cards == Head(play_str)
       IN  IF \E i \in 1..Len(cards) : IsRaise(convert_card(cards[i]))
           THEN Finish(first_raise(cards)) /\ UNCHANGED get_play_locals
           ELSE /\ play' = Append(play, trick_record(order, cards, Len(cards)))
                /\ pc' = "claim"
                /\ UNCHANGED <<play_str, order, dummy, made, result, first>>
    /\ UNCHANGED <<lin, run, players, dealer, hands, bids_triple, bid_locals,
                   vuln, heap, fin, fout>>

\* the loop of get_play ends with the last trick; get_play returns play, made
ReplayEnd ==
    /\ pc = "replay"
    /\ play_str = <<>>
    /\ pc' = "claim"
    /\ UNCHANGED <<lin, run, players, dealer, hands, bids_triple, bid_locals,
                   vuln, get_play_locals, result, first, heap, fin, fout>>

\* the claim check and the BridgeHand returned
Assemble ==
    /\ pc = "claim"
    /\ LET claim_str == claim_search(lin)
           claimed == IsOk(claim_str)
           made2 == IF claimed THEN PyStr(claim_str.val) ELSE PyInt(made)
       IN  /\ made' = made2
           /\ Finish(Ok(BridgeHand(players.val, dealer, hands.val, bids, play,
                                   contract, declarer, doubled, vuln, made2,
                                   claimed)))
    /\ UNCHANGED <<lin, run, players, dealer, hands, bids_triple, bid_locals,
                   vuln, play_str, order, dummy, play, heap, fin, fout>>

\* the same record is parsed a second time: a new call, whose locals are
\* not yet assigned, among the objects the first call left
ParseAgain ==
    /\ pc = "done"
    /\ run = 1
    /\ run' = 2
    /\ pc' = "get_players"
    /\ result' = Unset
    /\ players' = Unset
    /\ dealer' = Unset
    /\ hands' = Unset
    /\ bids_triple' = Unset
    /\ bids' = Unset
    /\ declarer' = Unset
    /\ contract' = Unset
    /\ doubled' = Unset
    /\ vuln' = Unset
    /\ play_str' = Unset
    /\ order' = Unset
    /\ dummy' = Unset
    /\ play' = Unset
    /\ made' = Unset
    /\ UNCHANGED <<lin, first, heap, fin, fout>>

Next ==
    \/ GetPlayers
    \/ GetDealer
    \/ GetInitialHands
    \/ GetBids
    \/ CheckFields
    \/ GetVulnerability
    \/ GetPlayEnter
    \/ ReplayTrick
    \/ ReplayPartial
    \/ ReplayEnd
    \/ Assemble
    \/ ParseAgain

-----------------------------------------------------------------------------
(* The records parsed *)

\* the longest run of tricks enumerated trick by trick
MaxSegs == 2
\* the longest play blob, in tricks
MaxTricks == 14

SeqsUpTo(n, S) == UNION {[1..k -> S] : k \in 0..n}

\* a card blob: the four suit groups behind their sentinels
blob(g1, g2, g3, g4) ==
    <<"S">> \o g1 \o <<"H">> \o g2 \o <<"D">> \o g3 \o <<"C">> \o g4

PN0 == Ok(<<"south", "west", "north", "east">>)
MD0 == Ok(<< <<"1">> \o blob(<<"A", "K">>, <<"2">>, <<>>, <<"T">>),
             blob(<<"Q">>, <<>>, <<"A">>, <<>>),
             blob(<<>>, <<"A">>, <<"3">>, <<"9", "8">>) >>)
MB0 == Ok(<< <<"1", "H">>, <<"p">>, <<"2", "H">>, <<"p">>, <<"p">>, <<"p">> >>)
\* the deal of MD0 with each of the four dealer flags
MD0Dealt == { Ok(<< <<f>> \o Tail(MD0.val[1]) >> \o Tail(MD0.val))
                : f \in {"1", "2", "3", "4"} }
SV0 == Ok("o")
MC0 == Ok(<<"3">>)

\* East C2 (lead), South CA, West DK, North C5 when East leads
TrickA == << <<"C", "2">>, <<"C", "A">>, <<"D", "K">>, <<"C", "5">> >>
TrickB == << <<"H", "A">>, <<"H", "2">>, <<"H", "3">>, <<"H", "4">> >>
TrickC == << <<"S", "2">>, <<"D", "3">>, <<"H", "5">>, <<"C", "K">> >>
Templates == <<TrickA, TrickB, TrickC>>

PC0 == Ok([segs |-> <<TrickA, TrickB>>, tail |-> <<>>])

BaseRecord == [pn |-> PN0, md |-> MD0, mb |-> MB0, sv |-> SV0, pc |-> PC0,
               mc |-> None]

\* records with any of the fields absent
FieldRecords ==
    [pn : {None, PN0, Ok(<<"south", "west", "north">>)},
     md : {None, MD0}, mb : {None, MB0}, sv : {None, SV0},
     pc : {None, PC0}, mc : {None, MC0}]

MainBlobs ==
    { blob(<<>>, <<>>, <<>>, <<>>),
      blob(<<"A">>, <<>>, <<>>, <<"2">>),
      blob(<<"A", "A">>, <<>>, <<>>, <<>>),
      blob(<<"K">>, <<"X">>, <<>>, <<>>),
      <<"S", "K", "D", "C">> }

\* records whose deal blob varies
HandRecords ==
    { [BaseRecord EXCEPT !.md = Ok(<< <<f>> \o Tail(MD0.val[1]) >> \o Tail(MD0.val))]
        : f \in {"0", "1", "2", "3", "4"} }
    \cup { [BaseRecord EXCEPT !.md = Ok(<< <<"3">> \o b1, b2, b3 >>)]
             : b1 \in MainBlobs, b2 \in MainBlobs, b3 \in MainBlobs }
    \cup { [BaseRecord EXCEPT !.md = Ok(SubSeq(MD0.val, 1, k))] : k \in 1..2 }

MainAuctions ==
    { << <<"p">>, <<"p">>, <<"p">>, <<"p">> >>,
      << <<"p", "!">>, <<"p">>, <<"p">>, <<"p">> >>,
      << <<"p">>, <<"p">>, <<"p">> >>,
      << <<"d">> >>,
      << <<"x">>, <<"p">>, <<"p">>, <<"p">> >>,
      << <<"1", "N">>, <<"p">>, <<"p">>, <<"p">> >>,
      << <<"p">>, <<"1", "D">>, <<"p">>, <<"p">>, <<"p">> >>,
      << <<"1", "H">>, <<"d">>, <<"r">>, <<"p">>, <<"p">>, <<"p">> >>,
      << <<"1", "H", "!", "|", "a", "n", "|", "x">>, <<"p">>,
         <<"2", "H">>, <<"d">>, <<"p">>, <<"p">>, <<"p">> >>,
      << <<"1", "S">>, <<"2", "S">>, <<"p">>, <<"p">>, <<"p">> >> }

\* records whose auction and dealer vary
BidRecords ==
    { [BaseRecord EXCEPT !.mb = Ok(a),
                         !.md = Ok(<< <<f>> \o Tail(MD0.val[1]) >> \o Tail(MD0.val))]
        : a \in MainAuctions, f \in {"1", "2", "3", "4"} }

\* records whose vulnerability marker varies
VulnRecords ==
    { [BaseRecord EXCEPT !.sv = Ok(c)]
        : c \in {"N", "n", "S", "s", "E", "e", "W", "w", "o", "O", "0", "B",
                 "b", "x"} }

\* what may stand between two end-of-trick markers
SegChoices ==
    { TrickA, TrickB, TrickC,
      << <<"C", "2">> >>,
      << <<"C", "2">>, <<"C", "A">>, <<"D", "K">> >>,
      << <<"C", "X">>, <<"C", "A">>, <<"D", "K">>, <<"C", "5">> >>,
      TrickC \o << <<"S", "A">> >> }

\* n tricks, the templates in turn
LongPlay(n, start) == [i \in 1..n |-> Templates[((start + i) % 3) + 1]]

\* the play blobs enumerated trick by trick
EnumPlays == SeqsUpTo(MaxSegs, SegChoices)

\* the long play blobs and the shortest ones
LongPlays == { LongPlay(n, st) : n \in 3..MaxTricks, st \in 0..2 }
             \cup SeqsUpTo(1, SegChoices)

\* records whose play blob varies, with and without a claim, and under
\* contracts of several strains
PlayRecords ==
    { [BaseRecord EXCEPT !.pc = Ok([segs |-> sg, tail |-> <<>>]), !.mc = m]
        : sg \in EnumPlays, m \in { None, MC0 } }
    \cup { [BaseRecord EXCEPT !.pc = Ok([segs |-> sg, tail |-> tl]),
                              !.mc = m, !.mb = Ok(a)]
             : sg \in LongPlays,
               tl \in { <<>>, << <<"H", "2">>, <<"H", "3">> >> },
               m \in { None, MC0, Ok(<<"1", "0">>), Ok(<<"x">>) },
               a \in { MB0.val,
                       << <<"1", "N">>, <<"p">>, <<"p">>, <<"p">> >>,
                       << <<"p">>, <<"1", "D">>, <<"p">>, <<"p">>, <<"p">> >> } }

\* records of a passed-out board, with and without a play blob
PassOutRecords ==
    { [BaseRecord EXCEPT !.mb = Ok(<< <<"p">>, <<"p">>, <<"p">>, <<"p">> >>),
                         !.md = Ok(<< <<f>> \o Tail(MD0.val[1]) >> \o Tail(MD0.val)),
                         !.pc = p]
        : f \in {"1", "2", "3", "4"}, p \in {None, PC0} }

Records == FieldRecords \cup HandRecords \cup BidRecords \cup VulnRecords
           \cup PlayRecords \cup PassOutRecords

Init ==
    /\ lin \in Records
    /\ pc = "get_players"
    /\ run = 1
    /\ players = Unset
    /\ dealer = Unset
    /\ hands = Unset
    /\ bids_triple = Unset
    /\ bids = Unset
    /\ declarer = Unset
    /\ contract = Unset
    /\ doubled = Unset
    /\ vuln = Unset
    /\ play_str = Unset
    /\ order = Unset
    /\ dummy = Unset
    /\ play = Unset
    /\ made = Unset
    /\ result = Unset
    /\ first = Unset
    /\ heap = <<>>
    /\ fin = Unset
    /\ fout = Unset

Spec == Init /\ [][Next]_vars

-----------------------------------------------------------------------------
(* The pure functions, each applied to inputs drawn from a bounded set *)

\* parse_linfile is not running
Idle ==
    /\ lin = Unset
    /\ pc = "idle"
    /\ run = 0
    /\ players = Unset
    /\ dealer = Unset
    /\ hands = Unset
    /\ bids_triple = Unset
    /\ bids = Unset
    /\ declarer = Unset
    /\ contract = Unset
    /\ doubled = Unset
    /\ vuln = Unset
    /\ play_str = Unset
    /\ order = Unset
    /\ dummy = Unset
    /\ play = Unset
    /\ made = Unset
    /\ result = Unset
    /\ first = Unset
    /\ heap = <<>>

(* get_trick_winner over every trick of four distinct cards of a small deck *)

TrickDeck ==
    { Card(s, r) : s \in 0..3, r \in {2, 14} } \cup { Card(0, 5), Card(1, 13) }

TrickInputs ==
    { [cards |-> ("E" :> e) @@ ("S" :> s) @@ ("W" :> w) @@ ("N" :> n),
       leader |-> l, trump |-> t]
        : e \in TrickDeck, s \in TrickDeck, w \in TrickDeck, n \in TrickDeck,
          l \in {"E", "S", "W", "N"}, t \in {"C", "D", "H", "S", "N"} }

TrickInit ==
    /\ Idle
    /\ fin \in { i \in TrickInputs :
                   Cardinality({i.cards[d] : d \in DOMAIN i.cards}) = 4 }
    /\ fout = Unset

ApplyTrickWinner ==
    /\ fout = Unset
    /\ fout' = Ok(get_trick_winner(fin.cards, fin.leader, fin.trump))
    /\ UNCHANGED <<parse_vars, fin>>

SpecTrick == TrickInit /\ [][ApplyTrickWinner]_vars

(* get_initial_hands over deal blobs of short suits *)

\* the longest spade holding of a blob
MaxHolding == 1

WellFormedBlobs ==
    { blob(g1, g2, g34[1], g34[2])
        : g1 \in SeqsUpTo(MaxHolding, {"A", "K"}),
          g2 \in {<<>>, <<"A">>},
          g34 \in { << <<>>, <<>> >>, << <<"T">>, <<"2">> >> } }

HandBlobs ==
    WellFormedBlobs
    \cup { blob(<<"A", "A">>, <<>>, <<>>, <<>>),
           blob(<<"K">>, <<"X">>, <<>>, <<>>),
           <<"S", "K", "D", "C">>,
           <<"S", "H", "S", "H", "D", "C">>,
           <<"S", "D", "S", "A", "H", "D", "C", "2">> }

HandInputs ==
    { << <<"3">> \o b1, b2, b3 >> : b1 \in HandBlobs, b2 \in HandBlobs,
                                    b3 \in HandBlobs }
    \cup { << <<"3">> \o b1, b2, b3, b2 >> : b1 \in WellFormedBlobs,
                                             b2 \in {MD0.val[2]},
                                             b3 \in WellFormedBlobs }
    \cup { << <<"3">> \o b1, b2 >> : b1 \in HandBlobs, b2 \in HandBlobs }
    \cup { << <<"3">> \o b1 >> : b1 \in HandBlobs }

HandsInit ==
    /\ Idle
    /\ fin \in { [md |-> Ok(h)] : h \in HandInputs } \cup { [md |-> None] }
    /\ fout = Unset

ApplyInitialHands ==
    /\ fout = Unset
    /\ LET r == get_initial_hands(heap, fin)
       IN  /\ heap' = r.heap
           /\ fout' = IF IsOk(r.out) THEN Ok(cards_of(r.heap, r.out.val))
                      ELSE r.out
    /\ UNCHANGED <<lin, pc, run, players, dealer, hands, bids_triple, bid_locals,
                   vuln, get_play_locals, result, first, fin>>

SpecHands == HandsInit /\ [][ApplyInitialHands]_vars

(* get_bids over every legal auction of a few calls *)

\* the highest level bid
MaxLevel == 2
\* the longest auction
MaxCalls == 9

\* the bids, lowest first
BidLadder ==
    [i \in 1..(2 * MaxLevel) |->
        << <<"1", "2", "3", "4", "5", "6", "7">>[(i + 1) \div 2],
           IF i % 2 = 1 THEN "H" ELSE "N" >>]

IsBid(c) == Len(c) = 2

\* the 1-based index of the last call of a that is not a pass, 0 without one
LastCall(a) ==
    IF \E i \in 1..Len(a) : a[i] # <<"p">>
    THEN CHOOSE i \in 1..Len(a) :
            a[i] # <<"p">> /\ \A j \in (i + 1)..Len(a) : a[j] = <<"p">>
    ELSE 0

\* the 1-based index of the last bid of a, 0 without one
LastBid(a) ==
    IF \E i \in 1..Len(a) : IsBid(a[i])
    THEN CHOOSE i \in 1..Len(a) :
            IsBid(a[i]) /\ \A j \in (i + 1)..Len(a) : ~IsBid(a[j])
    ELSE 0

\* the calls the laws allow after a
LegalCalls(a) ==
    LET lc == LastCall(a)
        lb == LastBid(a)
        rung == IF lb = 0 THEN 0 ELSE IndexOf(BidLadder, a[lb]) + 1
        by_opponent == lc # 0 /\ (Len(a) + 1 - lc) % 2 = 1
    IN  { <<"p">> }
        \cup { BidLadder[i] : i \in (rung + 1)..Len(BidLadder) }
        \cup (IF by_opponent /\ IsBid(a[lc]) THEN { <<"d">> } ELSE {})
        \cup (IF by_opponent /\ a[lc] = <<"d">> THEN { <<"r">> } ELSE {})

\* the auction is over: four passes, or three passes after a call
Completed(a) ==
    \/ a = << <<"p">>, <<"p">>, <<"p">>, <<"p">> >>
    \/ /\ Len(a) >= 4
       /\ LastCall(a) = Len(a) - 3

RECURSIVE Completions(_)
Completions(a) ==
    IF Completed(a) THEN {a}
    ELSE IF Len(a) >= MaxCalls THEN {}
    ELSE UNION { Completions(Append(a, c)) : c \in LegalCalls(a) }

LegalAuctions == Completions(<<>>)

BidsInit ==
    /\ Idle
    /\ fin \in { [dealer |-> d, mb |-> Ok(a)]
                   : d \in {"E", "S", "W", "N"}, a \in LegalAuctions }
    /\ fout = Unset

ApplyGetBids ==
    /\ fout = Unset
    /\ fout' = get_bids(fin, fin.dealer)
    /\ UNCHANGED <<parse_vars, fin>>

SpecBids == BidsInit /\ [][ApplyGetBids]_vars

(* Hand: its methods applied, one after another, to a hand of a small deck *)

\* Card.compare(self, other, sorder): -1, 0 or 1
compare(self, other, sorder) ==
    LET self_srank == IndexOf(sorder, self.suit)
        other_srank == IndexOf(sorder, other.suit)
    IN  IF self = other THEN 0
        ELSE IF self_srank < other_srank THEN -1
        ELSE IF self_srank = other_srank /\ self.rank < other.rank THEN -1
        ELSE 1

\* Hand(initial): the list initial itself, or a new empty list for None
Hand(initial) == [cards |-> IF IsNone(initial) THEN <<>> ELSE initial.val]

\* Hand.has(other)
has(self, other) == Contains(self.cards, other)

\* Hand.add_card(card): the hand after self.cards.append(card)
add_card(self, card) == [cards |-> Append(self.cards, card)]

\* Hand.remove_card(card): the hand after self.cards.remove(card), or the
\* ValueError of list.remove
remove_card(self, card) ==
    IF has(self, card) THEN Ok([cards |-> Remove(self.cards, card)])
    ELSE Raise("ValueError")

\* Hand.pop_card(i): the card self.cards.pop(i) returns and the hand it
\* leaves, or the IndexError of list.pop; a negative i counts from the end
pop_card(self, i) ==
    LET n == Len(self.cards)
        k == IF i < 0 THEN n + i ELSE i
    IN  IF k < 0 \/ k >= n THEN Raise("IndexError")
        ELSE Ok([card |-> self.cards[k + 1],
                 hand |-> [cards |-> SubSeq(self.cards, 1, k)
                                     \o SubSeq(self.cards, k + 2, n)]])

\* sorted(list, key=cmp_to_key(compare)): a stable sort, each card put before
\* the first card it compares below
RECURSIVE sorted(_, _)
sorted(list, sorder) ==
    IF list = <<>> THEN <<>>
    ELSE LET x == list[Len(list)]
             done == sorted(SubSeq(list, 1, Len(list) - 1), sorder)
             below(j) == compare(x, done[j], sorder) < 0
             at == IF \E j \in 1..Len(done) : below(j)
                   THEN CHOOSE j \in 1..Len(done) :
                           below(j) /\ \A m \in 1..(j - 1) : ~below(m)
                   ELSE Len(done) + 1
         IN  SubSeq(done, 1, at - 1) \o <<x>> \o SubSeq(done, at, Len(done))

\* Hand.sort(sorder): a new Hand of the sorted cards; self is left as it is
sort(self, sorder) == Hand(Ok(sorted(self.cards, sorder)))

\* the most cards a hand is given
MaxCards == 3

\* the cards added to and removed from the hand
HandDeck == { Card(0, 2), Card(0, 14), Card(3, 5) }

\* the suit orders a hand is sorted by
SortOrders == { <<0, 1, 2, 3>>, <<3, 2, 1, 0>> }

\* the lists without two equal cards
DuplicateFree ==
    { l \in SeqsUpTo(MaxCards, HandDeck) :
        \A i, j \in 1..Len(l) : l[i] = l[j] => i = j }

HandInit ==
    /\ Idle
    /\ fin \in { Hand(None) } \cup { Hand(Ok(l)) : l \in DuplicateFree }
    /\ fout = Unset

AddCard ==
    /\ \E card \in HandDeck :
          /\ Len(fin.cards) < MaxCards
          /\ fin' = add_card(fin, card)
          /\ fout' = None
    /\ UNCHANGED parse_vars

RemoveCard ==
    /\ \E card \in HandDeck :
          LET r == remove_card(fin, card)
          IN  IF IsRaise(r) THEN fout' = r /\ UNCHANGED fin
              ELSE fin' = r.val /\ fout' = None
    /\ UNCHANGED parse_vars

PopCard ==
    /\ \E i \in (0 - MaxCards - 1)..MaxCards :
          LET r == pop_card(fin, i)
          IN  IF IsRaise(r) THEN fout' = r /\ UNCHANGED fin
              ELSE fin' = r.val.hand /\ fout' = Ok(r.val.card)
    /\ UNCHANGED parse_vars

Sort ==
    /\ \E sorder \in SortOrders : fout' = Ok(sort(fin, sorder))
    /\ UNCHANGED <<parse_vars, fin>>

HandNext == AddCard \/ RemoveCard \/ PopCard \/ Sort

SpecHand == HandInit /\ [][HandNext]_vars

(* hcp (src/analyze.py) over hands of a small deck *)

\* sum(list) of a list of ints
RECURSIVE sum(_)
sum(list) == IF list = <<>> THEN 0 ELSE Head(list) + sum(Tail(list))

\* the list sp_list of hcp
sp_list == <<3, 2, 1>>

\* the list hcp_list of hcp
hcp_list == <<1, 2, 3, 4>>

\* Counter(vals): a dict of the number of times each value of the list
\* occurs, its keys in the order in which the values first occur; a value
\* that does not occur is not a key
Counter(vals) ==
    LET firsts == { i \in 1..Len(vals) : \A j \in 1..(i - 1) : vals[j] # vals[i] }
        nth(k) == CHOOSE i \in firsts : Cardinality({ j \in firsts : j <= i }) = k
    IN  [keys |-> [k \in 1..Cardinality(firsts) |-> vals[nth(k)]],
         count |-> [v \in { vals[i] : i \in 1..Len(vals) } |->
                       Cardinality({ i \in 1..Len(vals) : vals[i] = v })]]

\* counts.values() as a list: the counts in the order of the keys
values(counts) == [i \in 1..Len(counts.keys) |-> counts.count[counts.keys[i]]]

\* hcp(hand, shortness): the points of the face cards plus sps plus voids;
\* the points of the missing suits are assigned to void, which is not
\* returned, and voids stays 0
hcp(hand, shortness) ==
    LET voids == 0
        vals == [i \in 1..Len(hand.cards) |-> hand.cards[i].suit]
        counts == Counter(vals)
        void == (4 - Len(counts.keys)) * 3
        short == SelectSeq(values(counts), LAMBDA v : v < 3)
        sps == IF shortness
               THEN sum([i \in 1..Len(short) |-> sp_list[short[i] + 1]])
               ELSE 0
        ranks == [i \in 1..Len(hand.cards) |-> hand.cards[i].rank]
        facecards == SelectSeq(ranks, LAMBDA x : x > 10)
        hcps == sum([i \in 1..Len(facecards) |-> hcp_list[facecards[i] - 11 + 1]])
    IN  hcps + sps + voids

\* the most cards of the small deck in a hand
MaxHand == 5

\* four clubs, two diamonds, a heart and a spade
HcpDeck == { Card(0, 14), Card(0, 13), Card(0, 3), Card(0, 2),
             Card(1, 12), Card(1, 5), Card(2, 11), Card(3, 10) }

\* the cards of a set as a list, in the order of full_hand
ListOf(S) == SelectSeq(full_hand, LAMBDA c : c \in S)

\* hands of thirteen cards: the thirteen clubs, and a hand with no spade
Thirteen ==
    { SubSeq(full_hand, 1, 13),
      SubSeq(full_hand, 9, 13) \o SubSeq(full_hand, 22, 26)
          \o SubSeq(full_hand, 27, 29) }

\* list[::-1]: spades first, as get_initial_hands lists a hand
Reversed(l) == [i \in 1..Len(l) |-> l[Len(l) + 1 - i]]

\* a hand whose suits first occur in the order spades, clubs, hearts
Mixed == << Card(3, 10), Card(0, 2), Card(0, 3), Card(2, 11), Card(3, 14) >>

HcpInputs ==
    LET up == { ListOf(S) : S \in { T \in SUBSET HcpDeck : Cardinality(T) <= MaxHand } }
                  \cup Thirteen
    IN  up \cup { Reversed(l) : l \in up } \cup { Mixed }

HcpInit ==
    /\ Idle
    /\ fin \in { [hand |-> Hand(Ok(l)), shortness |-> b]
                   : l \in HcpInputs, b \in BOOLEAN }
    /\ fout = Unset

ApplyHcp ==
    /\ fout = Unset
    /\ fout' = Ok(hcp(fin.hand, fin.shortness))
    /\ UNCHANGED <<parse_vars, fin>>

SpecHcp == HcpInit /\ [][ApplyHcp]_vars

-----------------------------------------------------------------------------
(* Properties *)

\* the set of the cards of a hand
CardSet(h) == { h[i] : i \in 1..Len(h) }

\* the 52-card deck: 4 suits x ranks 2..14
Deck52 == { Card(s, r) : s \in 0..3, r \in 2..14 }

\* C1. Deck partition: whenever get_initial_hands returns hands, no card is
\* held twice (within a hand or by two hands) and the four hands together
\* hold exactly the 52 cards of the deck, East holding the cards of the deck
\* that South, West and North do not hold.
DeckPartition ==
    IsOk(fout) =>
        LET h == fout.val
        IN  /\ \A d \in {"S", "W", "N", "E"} : Cardinality(CardSet(h[d])) = Len(h[d])
            /\ \A d1, d2 \in {"S", "W", "N", "E"} :
                   d1 # d2 => CardSet(h[d1]) \cap CardSet(h[d2]) = {}
            /\ UNION { CardSet(h[d]) : d \in {"S", "W", "N", "E"} } = Deck52
            /\ CardSet(h.E) = Deck52 \ (CardSet(h.S) \cup CardSet(h.W) \cup CardSet(h.N))

\* hands were returned for a deal whose three explicit hands hold cards
DeckPartitionWitness ==
    /\ IsOk(fout)
    /\ Len(fout.val.S) > 0 /\ Len(fout.val.W) > 0 /\ Len(fout.val.N) > 0
    /\ Len(fout.val.E) < 49

\* the player on the left of each player (the next to call and to play)
LeftOf == [N |-> "E", E |-> "S", S |-> "W", W |-> "N"]

\* the player who makes the i-th call of an auction opened by dealer d
RECURSIVE Caller(_, _)
Caller(d, i) == IF i = 1 THEN d ELSE LeftOf[Caller(d, i - 1)]

\* the 1-based index of the first bid of the strain of the contract made by
\* the side that bid the contract
FirstOfStrain(a) ==
    LET c == LastBid(a)
        mine(i) == (c - i) % 2 = 0 /\ IsBid(a[i]) /\ a[i][2] = a[c][2]
    IN  CHOOSE i \in 1..c : mine(i) /\ \A j \in 1..(i - 1) : ~mine(j)

TheExample == << <<"1", "H">>, <<"p">>, <<"2", "H">>, <<"p">>, <<"p">>, <<"p">> >>

\* C2. Declarer inference: for every dealer and every legal completed auction
\* that is not a pass-out, the declarer get_bids returns is the player who
\* first bid the strain of the contract among the two players of the side
\* that bid the contract, hence a member of that side; for dealer South and
\* 1H, pass, 2H, pass, pass, pass it is South.
DeclarerInference ==
    (IsOk(fout) /\ LastBid(fin.mb.val) # 0) =>
        LET a == fin.mb.val
            bidder == Caller(fin.dealer, LastBid(a))
        IN  /\ fout.val[2] = Caller(fin.dealer, FirstOfStrain(a))
            /\ fout.val[2] \in {bidder, LeftOf[LeftOf[bidder]]}
            /\ (fin.dealer = "S" /\ a = TheExample) => fout.val[2] = "S"

\* get_bids has answered for an auction whose contract was bid by the partner
\* of the player who first bid its strain
DeclarerInferenceWitness ==
    /\ IsOk(fout)
    /\ LastBid(fin.mb.val) # 0
    /\ FirstOfStrain(fin.mb.val) # LastBid(fin.mb.val)
    /\ (LastBid(fin.mb.val) - FirstOfStrain(fin.mb.val)) % 4 = 2
    /\ fout.val[2] # Caller(fin.dealer, LastBid(fin.mb.val))

\* the players of a trick whose card is of suit s
Holders(cards, s) == { d \in DOMAIN cards : cards[d].suit = s }

\* the player of the highest card among the players ds
Highest(cards, ds) ==
    CHOOSE d \in ds : \A e \in ds : cards[e].rank <= cards[d].rank

ExampleTrick == ("E" :> Card(0, 2)) @@ ("S" :> Card(0, 14))
                @@ ("W" :> Card(1, 13)) @@ ("N" :> Card(0, 5))

\* C3. Trick winner: for every trick of four distinct cards, every leader and
\* every trump setting, the winner is the player of the highest trump played
\* if a trump was played, and the player of the highest card of the led suit
\* otherwise; the example trick is won by West with diamonds trump and by
\* South at no-trump.
TrickWinner ==
    IsOk(fout) =>
        LET cards == fin.cards
            led == cards[fin.leader].suit
            trumps == IF fin.trump = "N" THEN {}
                      ELSE Holders(cards, SUITMAP[fin.trump])
        IN  /\ fout.val.winner = IF trumps # {} THEN Highest(cards, trumps)
                                 ELSE Highest(cards, Holders(cards, led))
            /\ fout.val.top = cards[fout.val.winner]
            /\ (trumps = {} => cards[fout.val.winner].suit = led)
            /\ (cards = ExampleTrick /\ fin.leader = "E" /\ fin.trump = "D")
                   => fout.val.winner = "W"
            /\ (cards = ExampleTrick /\ fin.leader = "E" /\ fin.trump = "N")
                   => fout.val.winner = "S"

\* a trick in which two trumps were played on a plain-suit lead, the higher
\* one first, has been decided
TrickWinnerWitness ==
    /\ IsOk(fout)
    /\ fin.trump = "D"
    /\ fin.leader = "N"
    /\ fin.cards["N"] = Card(0, 2)
    /\ fin.cards["E"] = Card(1, 14)
    /\ fin.cards["S"] = Card(1, 2)
    /\ fin.cards["W"] = Card(0, 14)
    /\ fout.val.winner = "E"

\* the number a string of decimal digits denotes
RECURSIVE DecimalValue(_)
DecimalValue(ds) ==
    IF ds = <<>> THEN 0
    ELSE 10 * DecimalValue(SubSeq(ds, 1, Len(ds) - 1)) + digit_value[ds[Len(ds)]]

\* the record carries a claim marker with a count
HasClaimMarker(l) ==
    /\ IsOk(l.mc)
    /\ l.mc.val # <<>>
    /\ \A i \in 1..Len(l.mc.val) : l.mc.val[i] \in DOMAIN digit_value

\* the number of complete tricks of a Deal won by the declarer or by the
\* declarer's partner
DeclarerTricks(d) ==
    Cardinality({ k \in 1..Len(d.play) :
        /\ DOMAIN d.play[k].cards = {"E", "S", "W", "N"}
        /\ get_trick_winner(d.play[k].cards, d.play[k].lead, d.contract[2]).winner
               \in {d.declarer, LeftOf[LeftOf[d.declarer]]} })

\* C4. Claim override: the Deal of a record with a claim marker of count n
\* has tricksMade equal to the integer n and claimed true; the Deal of a
\* record without a claim marker has claimed false and tricksMade equal to
\* the tally of the replay.
ClaimOverride ==
    (pc = "done" /\ IsOk(result)) =>
        IF HasClaimMarker(lin)
        THEN /\ result.val.claimed = TRUE
             /\ result.val.made.tag = "int"
             /\ result.val.made.val = DecimalValue(lin.mc.val)
        ELSE /\ result.val.claimed = FALSE
             /\ result.val.made.tag = "int"
             /\ result.val.made.val = DeclarerTricks(result.val)

FourPasses == << <<"p">>, <<"p">>, <<"p">>, <<"p">> >>

\* the record has its players, a deal with a dealer, a vulnerability marker
\* and an auction of exactly four passes
PassedOut(l) ==
    /\ IsOk(l.pn) /\ Len(l.pn.val) = 4
    /\ l.md \in MD0Dealt
    /\ IsOk(l.sv)
    /\ l.mb = Ok(FourPasses)

\* C5. Pass-out: for every dealer, get_bids answers an auction of exactly four
\* passes with declarer None and contract 'PO', and parse_linfile completes on
\* such a record with a Deal whose declarer is None and whose contract is the
\* passed-out contract.
PassOut ==
    /\ (pc = "check" /\ PassedOut(lin)) =>
           /\ IsOk(bids_triple)
           /\ bids_triple.val[2] = "None"
           /\ bids_triple.val[3] = PyStr(<<"P", "O">>)
    /\ (pc = "done" /\ PassedOut(lin)) =>
           /\ IsOk(result)
           /\ result.val.declarer = "None"
           /\ result.val.contract = <<"P", "O">>

\* C6. Missing mandatory field: parse_linfile returns None for every record
\* without a player list, without a deal blob or without an auction blob
\* (a player list that is present naming the four players).
MissingField ==
    (pc = "done" /\ (IsNone(lin.pn) \/ IsNone(lin.md) \/ IsNone(lin.mb))
       /\ (IsOk(lin.pn) => Len(lin.pn.val) = 4))
        => IsNone(result)

\* the three explicit hands hold a card twice, or a rank symbol is unknown
CorruptEncoding(l) ==
    /\ IsRaise(get_initial_hands(<<>>, l).out)
    /\ get_initial_hands(<<>>, l).out.exc \in {"AssertionError", "KeyError"}

\* the auction is not four passes and has no contract-setting bid
MalformedAuction(l) ==
    /\ IsOk(l.mb)
    /\ l.mb.val # FourPasses
    /\ \A i \in 1..Len(l.mb.val) : l.mb.val[i] \in { <<"p">>, <<"d">>, <<"r">> }

\* C7. Record-local failures never propagate: parse_linfile returns None,
\* and raises nothing, for a record whose deal blob is corrupt or whose
\* auction is malformed.
LocalFailures ==
    (pc = "done" /\ IsOk(lin.pn) /\ Len(lin.pn.val) = 4 /\ dealer_matches(lin)
       /\ (CorruptEncoding(lin) \/ MalformedAuction(lin)))
        => IsNone(result)

\* the count a tricksMade value states, be it an int or a str of digits
MadeCount(m) == IF m.tag = "int" THEN m.val ELSE DecimalValue(m.val)

\* C8. Trick bound: no Deal is returned for a record whose play blob holds
\* more than 13 tricks, and every Deal returned has at most 13 trick records
\* and a tricksMade between 0 and 13.
TrickBound ==
    /\ (pc = "done" /\ IsOk(lin.pc) /\ Len(lin.pc.val.segs) > 13)
           => ~IsOk(result)
    /\ (pc = "done" /\ IsOk(result)) =>
           /\ Len(result.val.play) <= 13
           /\ MadeCount(result.val.made) \in 0..13

\* C9. Vulnerability mapping: get_vulnerability returns NS for the marker N
\* or S, EW for E or W, none for O or 0 and both for B, and so one of the
\* four values none, NS, EW, both for every marker.
VulnerabilityMapping ==
    (vuln # Unset /\ IsOk(lin.sv)
       /\ lin.sv.val \in {"N", "S", "E", "W", "O", "0", "B"}) =>
        /\ IsOk(vuln)
        /\ vuln.val \in {"none", "NS", "EW", "both"}
        /\ (lin.sv.val \in {"N", "S"} => vuln.val = "NS")
        /\ (lin.sv.val \in {"E", "W"} => vuln.val = "EW")
        /\ (lin.sv.val \in {"O", "0"} => vuln.val = "none")
        /\ (lin.sv.val = "B" => vuln.val = "both")

\* C10. Determinism: the second parse of a record, made among the objects the
\* first parse left, returns a Deal equal field by field (its hands card by
\* card) to the Deal the first parse returned, or None as the first did, or
\* raises what it raised.
Determinism == (pc = "done" /\ run = 2) => structure(heap, result) = first

\* a record with two tricks or more, one of them won by the declaring side,
\* has been parsed twice into a Deal, the Hands of the second Deal being
\* other objects than those of the first
DeterminismWitness ==
    /\ pc = "done"
    /\ run = 2
    /\ IsOk(result)
    /\ Len(result.val.play) >= 2
    /\ result.val.made.tag = "int"
    /\ result.val.made.val >= 1
    /\ Len(heap) = 8
    /\ \A d \in {"S", "W", "N", "E"} :
           result.val.hands[d] > 4 /\ Len(heap[result.val.hands[d]]) >= 2

\* the hand holds no two equal cards (Card.__eq__: same suit and same rank)
Unique(h) == \A i, j \in 1..Len(h.cards) : h.cards[i] = h.cards[j] => i = j

\* the value a method returned is a Hand
ReturnedHand(r) == IsOk(r) /\ "cards" \in DOMAIN r.val

\* C11. Hand uniqueness: after any sequence of add_card, remove_card, pop_card
\* and sort applied to an empty Hand or to a Hand built from a list without
\* duplicates, the hand holds no two equal cards, and neither does the Hand
\* that sort returns.
HandUniqueness ==
    /\ Unique(fin)
    /\ ReturnedHand(fout) => Unique(fout.val)

\* the number of cards of rank r in a hand
OfRank(h, r) == Cardinality({ i \in 1..Len(h.cards) : h.cards[i].rank = r })

\* the number of cards of suit s in a hand
OfSuit(h, s) == Cardinality({ i \in 1..Len(h.cards) : h.cards[i].suit = s })

\* 4 per Ace, 3 per King, 2 per Queen, 1 per Jack
HighCardPoints(h) ==
    4 * OfRank(h, 14) + 3 * OfRank(h, 13) + 2 * OfRank(h, 12) + OfRank(h, 11)

\* 3 for a void, 2 for a singleton, 1 for a doubleton
Shortness(n) == IF n = 0 THEN 3 ELSE IF n = 1 THEN 2 ELSE IF n = 2 THEN 1 ELSE 0

\* C12. Hand evaluation: hcp(hand) is 4 per Ace, 3 per King, 2 per Queen and
\* 1 per Jack, and hcp(hand, shortness=True) is that sum plus, for each of the
\* four suits, 3 for no card of the suit, 2 for one, 1 for two, 0 otherwise.
HandEvaluation ==
    IsOk(fout) =>
        fout.val = HighCardPoints(fin.hand)
                   + (IF fin.shortness
                      THEN Shortness(OfSuit(fin.hand, 0)) + Shortness(OfSuit(fin.hand, 1))
                           + Shortness(OfSuit(fin.hand, 2)) + Shortness(OfSuit(fin.hand, 3))
                      ELSE 0)

\* the number of double and redouble tokens of an auction after its call c
DoublesAfter(a, c) ==
    Cardinality({ i \in (c + 1)..Len(a) : a[i] \in { <<"d">>, <<"r">> } })

\* C13. Contract location: for every legal completed auction that is not a
\* pass-out, get_bids returns as the contract the last bid of the auction and
\* as the doubled level the number of doubles and redoubles after that bid:
\* 0 when the contract is undoubled, 1 when it is doubled, 2 when it is
\* redoubled.
ContractLocation ==
    (fout # Unset /\ LastBid(fin.mb.val) # 0) =>
        LET a == fin.mb.val
            c == LastBid(a)
            after == { a[i] : i \in (c + 1)..Len(a) }
        IN  /\ IsOk(fout)
            /\ fout.val[3].tag = "tuple"
            /\ fout.val[3].val[1] = a[c]
            /\ fout.val[3].val[2] = DoublesAfter(a, c)
            /\ fout.val[3].val[2] \in {0, 1, 2}
            /\ fout.val[3].val[2] = 0 <=> <<"d">> \notin after
            /\ fout.val[3].val[2] = 1 <=> (<<"d">> \in after /\ <<"r">> \notin after)
            /\ fout.val[3].val[2] = 2 <=> <<"r">> \in after

\* get_bids has answered for an auction in which a redoubled bid was outbid
\* and the last bid was then doubled and redoubled
ContractLocationWitness ==
    /\ IsOk(fout)
    /\ Len(fin.mb.val) >= 9
    /\ SubSeq(fin.mb.val, 1, 3) = << <<"1", "H">>, <<"d">>, <<"r">> >>
    /\ LastBid(fin.mb.val) = 4
    /\ fout.val[3] = PyTuple(<< fin.mb.val[4], 2 >>)

\* get_play is replaying the tricks, or has returned: the variable play is
\* the list of the trick records so far, or a Deal holds it
Replaying == pc \in {"replay", "claim"} \/ (pc = "done" /\ IsOk(result))

\* the trick records so far
PlaySoFar == IF pc = "done" THEN result.val.play ELSE play

\* the trick record holds a play of each of the four players
Complete(t) == DOMAIN t.cards = {"E", "S", "W", "N"}

\* who wins a complete trick: the highest trump played, or else the highest
\* card of the suit led
WinnerOf(t, trump) ==
    LET trumps == IF trump = "N" THEN {} ELSE Holders(t.cards, SUITMAP[trump])
    IN  IF trumps # {} THEN Highest(t.cards, trumps)
        ELSE Highest(t.cards, Holders(t.cards, t.cards[t.lead].suit))

\* C14. Lead rotation: the first trick is led by the player after the declarer
\* in the order East, South, West, North; the leader recorded for a trick that
\* follows a complete trick is the winner of that trick; and the first four
\* plays of a trick of the blob are recorded for the leader and the three
\* players after the leader, in that order, one play each.
LeadRotation ==
    Replaying =>
        LET p == PlaySoFar
            segs == lin.pc.val.segs
        IN  /\ Len(p) >= 1 => p[1].lead = LeftOf[declarer]
            /\ \A k \in 1..(Len(p) - 1) :
                   Complete(p[k]) => p[k + 1].lead = WinnerOf(p[k], contract[2])
            /\ \A k \in 1..Len(p) :
                   Len(segs[k]) >= 4 =>
                       /\ Complete(p[k])
                       /\ \A i \in 1..4 :
                              p[k].cards[Caller(p[k].lead, i)]
                                  = convert_card(segs[k][i]).val

\* a Deal of three tricks or more has been returned, the second trick led by
\* another player than the first, and the third by another than the second
LeadRotationWitness ==
    /\ pc = "done"
    /\ IsOk(result)
    /\ Len(result.val.play) >= 3
    /\ \A k \in 1..3 : Complete(result.val.play[k])
    /\ result.val.play[2].lead # result.val.play[1].lead
    /\ result.val.play[3].lead # result.val.play[2].lead

\* the declarer and the declarer's partner, two seats from the declarer
DeclaringSide == { declarer, LeftOf[LeftOf[declarer]] }

\* the complete tricks, among the trick records p, that the declaring side won
WonByDeclaringSide(p) ==
    { k \in 1..Len(p) :
        Complete(p[k]) /\ WinnerOf(p[k], contract[2]) \in DeclaringSide }

\* the complete tricks among the trick records p
CompleteTricks(p) == { k \in 1..Len(p) : Complete(p[k]) }

\* C15. Trick tally: at every point of the replay, and when get_play returns,
\* made is the number of complete tricks replayed so far that the declarer or
\* the declarer's partner won (so it grows by one with such a trick and stays
\* with a trick a defender won), and it is never more than the number of
\* complete tricks replayed.
TrickTally ==
    pc \in {"replay", "claim"} =>
        /\ made = Cardinality(WonByDeclaringSide(play))
        /\ made <= Cardinality(CompleteTricks(play))
        /\ dummy = LeftOf[LeftOf[declarer]]

\* get_play has returned after tricks won by the declarer, by the declarer's
\* partner and by a defender
TrickTallyWitness ==
    /\ pc = "claim"
    /\ made >= 2
    /\ made < Cardinality(CompleteTricks(play))
    /\ \E k \in WonByDeclaringSide(play) : WinnerOf(play[k], contract[2]) = declarer
    /\ \E k \in WonByDeclaringSide(play) : WinnerOf(play[k], contract[2]) = dummy

\* the number of tricks of four plays or more at the start of the play blob
FullRun(segs) ==
    CHOOSE n \in 0..Len(segs) :
        /\ \A k \in 1..n : Len(segs[k]) >= 4
        /\ n = Len(segs) \/ Len(segs[n + 1]) < 4

\* the plays of the first trick of the play blob for which fewer than four
\* plays are present: a short trick before an end-of-trick marker, or else
\* the plays after the last marker, where the blob ends early; none when
\* every trick is complete
ShortTrick(b) ==
    IF FullRun(b.segs) < Len(b.segs) THEN b.segs[FullRun(b.segs) + 1] ELSE b.tail

\* C16. Partial-trick termination: when get_play returns, every trick record
\* but the last holds four plays; and when the play blob has a trick with
\* fewer than four plays, the record of that trick is the last one, it holds
\* the plays present, given to the first players in rotation from the leader,
\* and the leader and the tally are those the complete tricks before it left.
PartialTrickTermination ==
    pc = "claim" =>
        LET n == FullRun(lin.pc.val.segs)
            short == ShortTrick(lin.pc.val)
        IN  /\ \A k \in 1..(Len(play) - 1) : Complete(play[k])
            /\ short # <<>> =>
                   /\ Len(play) = n + 1
                   /\ \A k \in 1..n : Complete(play[k])
                   /\ play[n + 1].lead = order[1]
                   /\ DOMAIN play[n + 1].cards
                          = { Caller(order[1], i) : i \in 1..Len(short) }
                   /\ \A i \in 1..Len(short) :
                          play[n + 1].cards[Caller(order[1], i)]
                              = convert_card(short[i]).val
                   /\ (n >= 1 => order[1] = WinnerOf(play[n], contract[2]))
                   /\ made = Cardinality(WonByDeclaringSide(SubSeq(play, 1, n)))

=============================================================================
